---------------------------- MODULE Spec2Model ----------------------------
(***************************************************************************)
(* A model of the RAG PDF query service: the vector store                  *)
(* (app/vector_store.py), the ingestion pipeline (app/pdf_ingestor.py),    *)
(* the query pipeline (app/query_handler.py) and the POST /query endpoint  *)
(* (app/main.py).                                                          *)
(*                                                                         *)
(* Texts are sequences of word tokens; a file name is a record             *)
(* [base, ext]; an embedding is a vector of integers.                      *)
(***************************************************************************)
EXTENDS Integers, Sequences, FiniteSets, TLC

VARIABLES
    \* ---- VectorStore (process memory and the two pickle files)
    embeddings,     \* self.embeddings
    documents,      \* self.documents
    diskEmb,        \* embeddings.pkl
    diskDoc,        \* documents.pkl
    alive,          \* the process is up
    \* ---- the pdfs/ folder and the runs of process_pdfs_folder
    folder,         \* file -> the text version now on disk
    run,            \* run id -> position of that run of process_pdfs_folder
    \* ---- history of the ingestion, read by the properties only
    snap,           \* run id -> the store when the run started
    attempt,        \* file -> the batch last built for it by process_pdf
    embedCalls,     \* number of calls of _get_embedding made by ingestion
    lastAdded,      \* the batch of the last add_documents that returned normally
    nRuns, edited, nRestarts,
    \* ---- one call of VectorStore.search, checked on its own
    spc, squery, stopk, top_indices, sresults,
    \* ---- one POST /query request
    query_handler,   \* main.query_handler: "none" until lifespan has set it
    qpc,             \* where the request is
    request,         \* request.query
    structured_info, \* what _parse_query returned
    search_results,  \* what vector_store.search returned
    response_text,   \* the raw text of the decision generation
    decision_result, \* how QueryHandler.process_query ended
    http_raised,     \* the status of the HTTPException raised inside the endpoint
    http_status,     \* the status the caller receives
    qtrace,          \* the stages the request went through
    \* ---- the embedding provider and the calls made on the store directly
    provider_dim,    \* the dimension of the vectors Config.EMBEDDING_MODEL yields
    memAtAdd,        \* the two lists when add_documents last returned normally
    api_result,      \* what the last get_stats / list_documents / is_document_processed returned
    \* ---- one call of PDFIngestor.create_chunks, checked on its own
    cpc,             \* "input" before the call, "done" after it
    ctext,           \* the text of the page
    chunk_size,      \* self.chunk_size
    chunk_overlap,   \* self.chunk_overlap
    chunks           \* what create_chunks returned

storeVars  == <<embeddings, documents, diskEmb, diskDoc, alive>>
ingestVars == <<folder, run, snap, attempt, embedCalls, lastAdded, nRuns, edited, nRestarts>>
searchVars == <<spc, squery, stopk, top_indices, sresults>>
queryVars  == <<query_handler, qpc, request, structured_info, search_results,
                response_text, decision_result, http_raised, http_status, qtrace>>
apiVars    == <<provider_dim, memAtAdd, api_result>>
chunkVars  == <<cpc, ctext, chunk_size, chunk_overlap, chunks>>
vars == <<storeVars, ingestVars, searchVars, queryVars, apiVars, chunkVars>>

---------------------------------------------------------------------------
\* Bounds of the model.
MaxChunks   == 2     \* chunks extracted from one document
MaxRuns     == 2     \* runs of process_pdfs_folder
MaxRestarts == 1     \* shutdown + restart of the process
MaxStore    == 3     \* entries of a store a search is checked on
MaxK        == 3     \* result count asked of a search checked on its own
MaxQStore   == 2     \* entries of the store a query is answered from
MaxDocChunks == 1    \* chunks of one document, where process lifetimes are followed

---------------------------------------------------------------------------
\* Generic helpers.
Min(a, b) == IF a < b THEN a ELSE b

Range(s) == {s[i] : i \in 1..Len(s)}

RECURSIVE SeqSum(_)
SeqSum(s) == IF s = <<>> THEN 0 ELSE Head(s) + SeqSum(Tail(s))

Reverse(s) == [i \in 1..Len(s) |-> s[Len(s) + 1 - i]]

Take(s, n) == SubSeq(s, 1, Min(n, Len(s)))

RECURSIVE Gcd(_, _)
Gcd(a, b) == IF b = 0 THEN a ELSE Gcd(b, a % b)

Abs(x) == IF x < 0 THEN 0 - x ELSE x

\* All orderings of the elements of a finite set.
Perms(S) == {p \in [1..Cardinality(S) -> S] : \A x \in S : \E i \in DOMAIN p : p[i] = x}

---------------------------------------------------------------------------
\* Texts.  str.lower() on a token.
LowerTok(t) ==
    CASE t = "Covered"  -> "covered"
      [] t = "Excluded" -> "excluded"
      [] OTHER          -> t

Lower(text) == [i \in 1..Len(text) |-> LowerTok(text[i])]

\* The contents a chunk can have.
ContentList ==
    << <<"knee", "covered">>,
       <<"covered">>,
       <<"dental", "Excluded">>,
       <<"covered", "waiting", "Rs50,000">>,
       <<"not", "covered", "excluded">> >>

Contents == Range(ContentList)

---------------------------------------------------------------------------
\* The embedding provider (genai.embed_content), when it answers: a
\* bag-of-words vector.  Texts with the same direction have the same cosine
\* similarity to every query.
AxisX == {"knee", "covered", "surgery"}
AxisY == {"dental", "excluded", "waiting"}

CountIn(text, S) == Cardinality({i \in 1..Len(text) : LowerTok(text[i]) \in S})

Embed(text) == <<CountIn(text, AxisX), CountIn(text, AxisY)>>

\* The dimensions an embedding model can have: the vectors of
\* Config.EMBEDDING_MODEL, and those of another model one component longer.
Dims == {2, 3}

\* _get_embedding, when the provider answers, for a model of dimension dim.
get_embedding(text, dim) ==
    IF dim = 2 THEN Embed(text)
    ELSE Embed(text) \o <<Len(text) - CountIn(text, AxisX \cup AxisY)>>

Dot(u, v) == SeqSum([i \in 1..Min(Len(u), Len(v)) |-> u[i] * v[i]])

Norm2(u) == Dot(u, u)

\* sklearn cosine_similarity of two vectors, kept exact: the signed square of
\* the cosine as a reduced fraction <<num, den>> (a zero vector gives 0).
CosineSimilarity(q, v) ==
    LET d == Dot(q, v)
        n == Norm2(q) * Norm2(v)
        s == IF d < 0 THEN 0 - (d * d) ELSE d * d
        g == Gcd(Abs(s), n)
    IN  IF n = 0 \/ d = 0 THEN <<0, 1>> ELSE <<s \div g, n \div g>>

SimLeq(a, b) == a[1] * b[2] <= b[1] * a[2]

---------------------------------------------------------------------------
\* Files of the pdfs/ folder.
PdfA == [base |-> "a", ext |-> "pdf"]
PdfB == [base |-> "a", ext |-> "PDF"]
Txt  == [base |-> "n", ext |-> "txt"]

FolderFiles == {PdfA, PdfB, Txt}

LowerExt(e) == IF e = "PDF" THEN "pdf" ELSE e

\* f.lower().endswith('.pdf')
IsPdf(f) == LowerExt(f.ext) = "pdf"

PdfFiles == {f \in FolderFiles : IsPdf(f)}

\* generate_chunk_id: f"{base_name}-p{page}-c{chunk_index}"
generate_chunk_id(filename, page, chunk_index) == <<filename.base, page, chunk_index>>

\* What extract_text_from_pdf yields for a document whose text version is v:
\* v chunks, numbered per page.
PageOf(i) == (i + 1) \div 2
IndexOf(i) == (i + 1) % 2
ContentOf(v, i) == ContentList[((v + i) % Len(ContentList)) + 1]

extract_text_from_pdf(v) ==
    [i \in 1..v |-> [text |-> ContentOf(v, i), page |-> PageOf(i), chunk_index |-> IndexOf(i)]]

\* process_pdf, lines 66-82: the chunks with their metadata.
chunks_with_metadata(filename, v) ==
    LET tc == extract_text_from_pdf(v)
    IN  [i \in 1..Len(tc) |->
            [content     |-> tc[i].text,
             source      |-> filename,
             page        |-> tc[i].page,
             chunk_id    |-> generate_chunk_id(filename, tc[i].page, tc[i].chunk_index),
             chunk_index |-> tc[i].chunk_index]]

---------------------------------------------------------------------------
\* VectorStore.

\* A pickle file: absent, holding a list, or cut short by a failed write.
NoFile      == [st |-> "absent",  data |-> <<>>]
Corrupt     == [st |-> "corrupt", data |-> <<>>]
FileOf(seq) == [st |-> "ok",      data |-> seq]

\* _save_data: the outcomes of the two writes.  Every failure is logged and
\* swallowed.  open(.., 'wb') truncates, so a failed dump leaves a cut file.
SaveOutcomes == {"ok", "open1", "dump1", "open2", "dump2"}

save_data(outcome, emb, docs, oldEmb, oldDoc) ==
    CASE outcome = "ok"    -> <<FileOf(emb), FileOf(docs)>>
      [] outcome = "open1" -> <<oldEmb, oldDoc>>
      [] outcome = "dump1" -> <<Corrupt, oldDoc>>
      [] outcome = "open2" -> <<FileOf(emb), oldDoc>>
      [] outcome = "dump2" -> <<FileOf(emb), Corrupt>>

\* _initialize + _load_data: <<embeddings, documents>> after construction.
load_data(fEmb, fDoc) ==
    IF fEmb.st = "absent" \/ fDoc.st = "absent" THEN << <<>>, <<>> >>
    ELSE IF fEmb.st = "corrupt" \/ fDoc.st = "corrupt" THEN << <<>>, <<>> >>
    ELSE <<fEmb.data, fDoc.data>>

\* (a variant that looks at the last stored record only)
is_document_processed_last(docs, filename) ==
    docs # <<>> /\ docs[Len(docs)].source = filename

\* is_document_processed
is_document_processed(docs, filename) ==
    \E i \in 1..Len(docs) : docs[i].source = filename

\* The stored records of one source, in stored order.
SourceEntries(docs, filename) == SelectSeq(docs, LAMBDA d : d.source = filename)


\* search, line 113: the similarity of every stored vector to the query.
Similarities(emb, qv) == [i \in 1..Len(emb) |-> CosineSimilarity(qv, emb[i])]

\* np.argsort(similarities): the indices by non-decreasing similarity.  The
\* default kind is not a stable sort, so equal similarities come in any order.
Argsort(sims) ==
    {p \in Perms(1..Len(sims)) :
        \A i \in 1..(Len(sims) - 1) : SimLeq(sims[p[i]], sims[p[i + 1]])}

\* (a variant that forgets to reverse the ascending order)
TopIndices_ascending(p, k) == Take(p, k)

\* (a variant that forgets the cut [:top_k])
TopIndices_uncut(p, k) == Reverse(p)

\* search, line 116: [::-1][:top_k]
TopIndices(p, k) == Take(Reverse(p), k)

\* search, lines 119-135: the result records of the chosen indices (the field
\* distance = 1 - similarity is left out: no caller reads it).
FormatResults(docs, sims, idxs) ==
    LET kept == SelectSeq(idxs, LAMBDA i : i <= Len(docs))
    IN  [n \in 1..Len(kept) |->
            [content    |-> docs[kept[n]].content,
             source     |-> docs[kept[n]].source,
             page       |-> docs[kept[n]].page,
             chunk_id   |-> docs[kept[n]].chunk_id,
             similarity |-> sims[kept[n]]]]

\* A store as one add_documents leaves it: n chunks of one document.
StoreOf(cs) ==
    [i \in 1..Len(cs) |->
        [content     |-> cs[i],
         source      |-> PdfA,
         page        |-> PageOf(i),
         chunk_id    |-> generate_chunk_id(PdfA, PageOf(i), IndexOf(i)),
         chunk_index |-> IndexOf(i)]]

ContentSeqs(n) == UNION {[1..m -> Contents] : m \in 0..n}

\* The query texts.
Queries == { <<"knee">>, <<"dental">>, <<"knee", "dental">>, <<"claim">> }

---------------------------------------------------------------------------
\* JSON values and the dictionaries of the query pipeline.  A field of a
\* dictionary is a tagged value; the tag "absent" stands for a missing key.
Absent       == [t |-> "absent", s |-> "", l |-> <<>>]
JNull        == [t |-> "null",   s |-> "", l |-> <<>>]
JStr(x)      == [t |-> "str",    s |-> x,  l |-> <<>>]
JList(items) == [t |-> "list",   s |-> "", l |-> items]

\* An item of justification / alternatives.  wellformed: a JSON object with
\* the string fields clause, text and source.
NA == [base |-> "N/A", ext |-> ""]

Citation(clause, text, source) ==
    [wellformed |-> TRUE, clause |-> clause, text |-> text, source |-> source]

MalformedItem == [wellformed |-> FALSE, clause |-> <<>>, text |-> <<>>, source |-> NA]

Dict(decision, amount, justification, alternatives) ==
    [decision |-> decision, amount |-> amount,
     justification |-> justification, alternatives |-> alternatives]

NoDict == Dict(Absent, Absent, Absent, Absent)

\* What a coroutine ends with: a value returned or an exception raised.
Return(val) == [kind |-> "return", exc |-> "", val |-> val]
Raise(exc)  == [kind |-> "raise", exc |-> exc, val |-> NoDict]

\* The exception classes that occur; all of them derive from Exception.
ExceptionClasses ==
    {"ProviderError", "JSONDecodeError", "ValueError", "ValidationError", "HTTPException"}

---------------------------------------------------------------------------
\* The raw text of a generation response: a sequence of segments.
\*   obj    a JSON object ({ ... }, braces balanced), holding the dictionary o
\*   array  a JSON array without braces
\*   prose  text without braces
\*   brace  text that ends with a closing brace
\*   fencej the marker ```json      fence  the marker ```      ws  white space
Seg(kind, o) == [k |-> kind, o |-> o]

Prose  == Seg("prose", NoDict)
BraceTail == Seg("brace", NoDict)
ArrayText == Seg("array", NoDict)
FenceJson == Seg("fencej", NoDict)
Fence  == Seg("fence", NoDict)
Ws     == Seg("ws", NoDict)
Obj(o) == Seg("obj", o)

\* str.strip()
RECURSIVE LStrip(_)
LStrip(text) ==
    IF text # <<>> /\ Head(text).k = "ws" THEN LStrip(Tail(text)) ELSE text

StripSegs(text) == Reverse(LStrip(Reverse(LStrip(text))))

\* re.sub(r'```json\s*', '', text): every ```json marker goes, with the
\* white space after it.
RECURSIVE DropFenceJson(_)
DropFenceJson(text) ==
    IF text = <<>> THEN <<>>
    ELSE IF Head(text).k = "fencej" THEN DropFenceJson(LStrip(Tail(text)))
    ELSE <<Head(text)>> \o DropFenceJson(Tail(text))

\* re.sub(r'```\s*$', '', text): a ``` marker at the very end goes.
DropLastFence(text) ==
    LET r == LStrip(Reverse(text))
    IN  IF r # <<>> /\ Head(r).k = "fence" THEN Reverse(Tail(r)) ELSE text

\* re.search(r'\{.*\}', text, re.DOTALL): from the first opening brace to the
\* last closing brace; <<>> when there is no match.
HasOpen(seg)  == seg.k = "obj"
HasClose(seg) == seg.k \in {"obj", "brace"}

BraceMatch(text) ==
    LET opens  == {i \in 1..Len(text) : HasOpen(text[i])}
        closes == {i \in 1..Len(text) : HasClose(text[i])}
    IN  IF opens = {} THEN <<>>
        ELSE LET first == CHOOSE i \in opens : \A j \in opens : i <= j
                 last  == CHOOSE i \in closes : \A j \in closes : j <= i
             IN  SubSeq(text, first, last)

\* json.loads: the value, or JSONDecodeError.  White space around the value
\* is allowed.
JsonLoads(text) ==
    LET t == StripSegs(text)
    IN  IF Len(t) = 1 /\ t[1].k = "obj" THEN [ok |-> TRUE, isdict |-> TRUE, o |-> t[1].o]
        ELSE IF Len(t) = 1 /\ t[1].k = "array" THEN [ok |-> TRUE, isdict |-> FALSE, o |-> NoDict]
        ELSE [ok |-> FALSE, isdict |-> FALSE, o |-> NoDict]

\* _make_decision lines 165-176 (and _parse_query lines 97-108).
CleanAndLoad(raw) ==
    LET cleaned == DropLastFence(DropFenceJson(StripSegs(raw)))
        m       == BraceMatch(cleaned)
    IN  JsonLoads(IF m # <<>> THEN m ELSE cleaned)

---------------------------------------------------------------------------
\* QueryHandler.

TOP_K_RESULTS == 5

PreviewLen == 200

\* "word in content_lower": the phrase occurs in the lower-cased text.
HasPhrase(text, phrase) ==
    \E i \in 1..(Len(text) - Len(phrase) + 1) :
        SubSeq(Lower(text), i, i + Len(phrase) - 1) = phrase

HasAny(text, phrases) == \E ph \in phrases : HasPhrase(text, ph)

ApproveWords == { <<"covered">>, <<"approved">>, <<"eligible">> }
WaitWords    == { <<"waiting">>, <<"period">>, <<"days">> }
RejectWords  == { <<"excluded">>, <<"not", "covered">>, <<"rejected">> }

\* _make_decision lines 219-226
keyword_decision(content) ==
    IF HasAny(content, ApproveWords)
    THEN (IF HasAny(content, WaitWords) THEN "Uncertain" ELSE "Approved")
    ELSE IF HasAny(content, RejectWords) THEN "Rejected"
    ELSE "Uncertain"

\* _make_decision lines 229-230: re.search(r'₹[\d,]+', content)
AmountTokens == {"Rs50,000"}

amount_match(content) ==
    LET hits == {i \in 1..Len(content) : content[i] \in AmountTokens}
    IN  IF hits = {} THEN JNull
        ELSE JStr(content[CHOOSE i \in hits : \A j \in hits : i <= j])

\* The citation made of the best search result (lines 189-194, 235-239).
best_result_citation(results) ==
    LET best_result == results[1]
    IN  Citation(<<"Page", ToString(best_result.page)>>,
                 Take(best_result.content, PreviewLen) \o <<"...">>,
                 best_result.source)

\* A dictionary of the fixed fallback shape with one explanatory citation.
fallback_dict(decision, message) ==
    Dict(JStr(decision), JNull, JList(<<Citation(<<"N/A">>, message, NA)>>), JList(<<>>))

\* (a variant that answers Uncertain, as the other fallbacks do)
no_results_dict_uncertain ==
    fallback_dict("Uncertain", <<"No relevant clause found in provided documents.">>)

\* process_query lines 38-47
no_results_dict ==
    fallback_dict("Unknown", <<"No relevant clause found in provided documents.">>)

\* (a variant that leaves a missing alternatives field missing)
normalize_no_alternatives(d, results) ==
    LET d1 == IF d.decision.t = "absent" THEN [d EXCEPT !.decision = JStr("Uncertain")] ELSE d
    IN  IF d1.justification.t # "list"
        THEN [d1 EXCEPT !.justification = JList(<<best_result_citation(results)>>)]
        ELSE d1

\* _make_decision lines 183-205: the parsed dictionary with its gaps filled.
normalize(d, results) ==
    LET d1 == IF d.decision.t = "absent" THEN [d EXCEPT !.decision = JStr("Uncertain")] ELSE d
        d2 == IF d1.justification.t # "list"
              THEN [d1 EXCEPT !.justification =
                        IF results # <<>>
                        THEN JList(<<best_result_citation(results)>>)
                        ELSE JList(<<Citation(<<"N/A">>, <<"No relevant information found">>, NA)>>)]
              ELSE d1
    IN  IF d2.alternatives.t = "absent" THEN [d2 EXCEPT !.alternatives = JList(<<>>)] ELSE d2

\* _make_decision lines 207-252: the keyword decision on the best result.
heuristic_fallback(results) ==
    IF results # <<>>
    THEN Dict(JStr(keyword_decision(results[1].content)),
              amount_match(results[1].content),
              JList(<<best_result_citation(results)>>),
              JList(<<>>))
    ELSE fallback_dict("Uncertain", <<"Unable to process the policy documents properly.">>)

\* _make_decision lines 254-267: except Exception.
make_decision_except(outcome) ==
    IF outcome.kind = "raise" /\ outcome.exc \in ExceptionClasses
    THEN Return(fallback_dict("Uncertain", <<"Processing error:", outcome.exc>>))
    ELSE outcome

\* How a call of model.generate_content ends.
GenRaise(exc) == [kind |-> "raise", exc |-> exc, raw |-> <<>>]
GenText(raw)  == [kind |-> "return", exc |-> "", raw |-> raw]

\* _make_decision: gen is how model.generate_content ended (the raw text, or
\* an exception).
make_decision(results, gen) ==
    make_decision_except(
        IF gen.kind = "raise" THEN Raise(gen.exc)
        ELSE LET v == CleanAndLoad(gen.raw)
             IN  IF v.ok /\ v.isdict
                 THEN Return(normalize(v.o, results))
                 ELSE Return(heuristic_fallback(results)))

\* (a variant whose heuristic also runs when the generation call raised)
decision_stages_broad(gen) ==
    IF gen.kind = "raise" THEN <<"GenerationRaised", "HeuristicFallback">>
    ELSE LET v == CleanAndLoad(gen.raw)
         IN  IF v.ok /\ v.isdict THEN <<"Decided">>
             ELSE <<"DecisionParseFailed", "HeuristicFallback">>

\* The stages of _make_decision for a generation outcome.
decision_stages(gen) ==
    IF gen.kind = "raise" THEN <<"GenerationRaised">>
    ELSE LET v == CleanAndLoad(gen.raw)
         IN  IF v.ok /\ v.isdict THEN <<"Decided">>
             ELSE <<"DecisionParseFailed", "HeuristicFallback">>

\* _parse_query: every failure gives {} (lines 110-117).
parse_query(gen) ==
    IF gen.kind = "raise" THEN "empty"
    ELSE LET v == CleanAndLoad(gen.raw)
         IN  IF ~v.ok THEN "empty" ELSE IF v.isdict THEN "hints" ELSE "nondict"

\* (a variant whose except clause names the parsing errors only)
process_query_except_narrow(outcome) ==
    IF outcome.kind = "raise" /\ outcome.exc \in {"JSONDecodeError", "ValueError"}
    THEN Return(fallback_dict("Uncertain", <<"Error processing query:", outcome.exc>>))
    ELSE outcome

\* process_query lines 60-71: except Exception.
process_query_except(outcome) ==
    IF outcome.kind = "raise" /\ outcome.exc \in ExceptionClasses
    THEN Return(fallback_dict("Uncertain", <<"Error processing query:", outcome.exc>>))
    ELSE outcome

---------------------------------------------------------------------------
\* main.py: the response model and the endpoint's handler.

ValidItems(v) == v.t = "list" /\ \A i \in 1..Len(v.l) : v.l[i].wellformed

\* QueryResponse(**result): decision: str, amount: Optional[str],
\* justification: List[JustificationItem], alternatives: List[...] = [].
QueryResponseValid(d) ==
    /\ d.decision.t = "str"
    /\ d.amount.t \in {"absent", "null", "str"}
    /\ ValidItems(d.justification)
    /\ d.alternatives.t = "absent" \/ ValidItems(d.alternatives)

\* Lines 132-134: except Exception catches what the try block raised, the
\* HTTPException of lines 120 and 123 included, and raises status 500.
endpoint_except(raised) == 500

\* str.strip() of the query text (the token " " is white space).
RECURSIVE LStripText(_)
LStripText(text) ==
    IF text # <<>> /\ Head(text) = " " THEN LStripText(Tail(text)) ELSE text

StripText(text) == Reverse(LStripText(Reverse(LStripText(text))))

---------------------------------------------------------------------------
\* The parts of the state a specification does not use stay at these values.
StoreOff ==
    /\ embeddings = <<>> /\ documents = <<>>
    /\ diskEmb = NoFile /\ diskDoc = NoFile
    /\ alive = TRUE

Runs == {1, 2}

IdleRun == [pc |-> "idle", files |-> <<>>, idx |-> 1, batch |-> <<>>, k |-> 1, err |-> "none"]

NoSnap == [docs |-> <<>>, calls |-> 0, errs |-> {}]

IngestOff ==
    /\ folder = [f \in PdfFiles |-> 0]
    /\ run = [r \in Runs |-> IdleRun]
    /\ snap = [r \in Runs |-> NoSnap]
    /\ attempt = [f \in PdfFiles |-> <<>>]
    /\ embedCalls = 0
    /\ lastAdded = <<>>
    /\ nRuns = 0 /\ edited = FALSE /\ nRestarts = 0

NoMem == [emb |-> <<>>, docs |-> <<>>]

NoResult == [op |-> "none", arg |-> NA, chunks |-> 0, documents |-> 0, names |-> <<>>, found |-> FALSE]

ChunksOff ==
    /\ cpc = "off" /\ ctext = <<>> /\ chunk_size = 0 /\ chunk_overlap = 0
    /\ chunks = <<>>

ApiOff ==
    /\ provider_dim = 2
    /\ memAtAdd = NoMem
    /\ api_result = NoResult
    /\ ChunksOff

SearchOff ==
    /\ spc = "off" /\ squery = <<>> /\ stopk = 0
    /\ top_indices = <<>> /\ sresults = <<>>

QueryOff ==
    /\ query_handler = "ready"
    /\ qpc = "off" /\ request = <<>> /\ structured_info = "empty"
    /\ search_results = <<>> /\ response_text = <<>>
    /\ decision_result = Raise("") /\ http_raised = 0 /\ http_status = 0
    /\ qtrace = <<>>

---------------------------------------------------------------------------
\* PDFIngestor.process_pdfs_folder and VectorStore.add_documents, one action
\* per stretch of code between two calls of an external collaborator.

Resting(r) == run[r].pc \in {"idle", "done", "raised"}

\* Lines 26-33: list the folder (os.listdir gives the names in any order).
StartRun(r) ==
    /\ alive /\ Resting(r) /\ nRuns < MaxRuns
    /\ \E order \in Perms(PdfFiles) :
          run' = [run EXCEPT ![r] =
                    [pc    |-> IF order = <<>> THEN "done" ELSE "loop",
                     files |-> order, idx |-> 1, batch |-> <<>>, k |-> 1,
                     err   |-> "none"]]
    /\ snap' = [snap EXCEPT ![r] = [docs |-> documents, calls |-> embedCalls, errs |-> {}]]
    /\ nRuns' = nRuns + 1
    /\ edited' = FALSE
    /\ UNCHANGED <<storeVars, folder, attempt, embedCalls, lastAdded, nRestarts,
                   searchVars, queryVars, apiVars, chunkVars>>

\* Lines 51-53: os.listdir raises; the run logs and re-raises.
ListdirFails(r) ==
    /\ alive /\ Resting(r) /\ nRuns < MaxRuns
    /\ run' = [run EXCEPT ![r] = [IdleRun EXCEPT !.pc = "raised", !.err = "listdir"]]
    /\ snap' = [snap EXCEPT ![r] = [docs |-> documents, calls |-> embedCalls, errs |-> {}]]
    /\ nRuns' = nRuns + 1
    /\ edited' = FALSE
    /\ UNCHANGED <<storeVars, folder, attempt, embedCalls, lastAdded, nRestarts,
                   searchVars, queryVars, apiVars, chunkVars>>

CurrentFile(r) == run[r].files[run[r].idx]

AtDocument(r) == alive /\ run[r].pc = "loop" /\ run[r].idx <= Len(run[r].files)

\* Lines 47-49: a failure inside the loop body is logged and the loop goes on.
\* (a variant that leaves the loop instead of going on)
AfterDocFailure_break(rec) ==
    [rec EXCEPT !.pc = "loop", !.idx = Len(rec.files) + 1, !.batch = <<>>, !.k = 1]

AfterDocFailure(rec) == [rec EXCEPT !.pc = "loop", !.idx = @ + 1, !.batch = <<>>, !.k = 1]

\* The loop moves on after a document was handled without error.
AfterDocDone(rec) == [rec EXCEPT !.pc = "loop", !.idx = @ + 1, !.batch = <<>>, !.k = 1]

\* Lines 39-41: skip a document the store already knows.
SkipProcessed(r) ==
    /\ AtDocument(r)
    /\ is_document_processed(documents, CurrentFile(r))
    /\ run' = [run EXCEPT ![r] = AfterDocDone(run[r])]
    /\ UNCHANGED <<storeVars, folder, snap, attempt, embedCalls, lastAdded, nRuns, edited, nRestarts,
                   searchVars, queryVars, apiVars, chunkVars>>

\* process_pdf: extract_text_from_pdf raises (lines 114-116, 89-91).
ExtractFails(r) ==
    /\ AtDocument(r)
    /\ ~is_document_processed(documents, CurrentFile(r))
    /\ run' = [run EXCEPT ![r] = AfterDocFailure(run[r])]
    /\ snap' = [snap EXCEPT ![r].errs = @ \cup {CurrentFile(r)}]
    /\ UNCHANGED <<storeVars, folder, attempt, embedCalls, lastAdded, nRuns, edited, nRestarts,
                   searchVars, queryVars, apiVars, chunkVars>>

\* process_pdf up to the first embedding call of add_documents; a document
\* without text is done at once (lines 61-63).
BeginAdd(r) ==
    /\ AtDocument(r)
    /\ ~is_document_processed(documents, CurrentFile(r))
    /\ LET f == CurrentFile(r)
           b == chunks_with_metadata(f, folder[f])
       IN  /\ attempt' = [attempt EXCEPT ![f] = b]
           /\ run' = [run EXCEPT ![r] =
                        IF b = <<>> THEN AfterDocDone(run[r])
                        ELSE [run[r] EXCEPT !.pc = "adding", !.batch = b, !.k = 1]]
    /\ UNCHANGED <<storeVars, folder, snap, embedCalls, lastAdded, nRuns, edited, nRestarts,
                   searchVars, queryVars, apiVars, chunkVars>>

Adding(r) == alive /\ run[r].pc = "adding"

\* (a variant that puts the new entry in front of the stored ones)
EmbedOk_prepend(r) ==
    /\ Adding(r) /\ run[r].k <= Len(run[r].batch)
    /\ LET doc == run[r].batch[run[r].k]
       IN  /\ embeddings' = <<get_embedding(doc.content, provider_dim)>> \o embeddings
           /\ documents' = <<doc>> \o documents
    /\ run' = [run EXCEPT ![r].k = @ + 1]
    /\ embedCalls' = embedCalls + 1
    /\ UNCHANGED <<diskEmb, diskDoc, alive, folder, snap, attempt, lastAdded, nRuns, edited, nRestarts,
                   searchVars, queryVars, apiVars, chunkVars>>

\* add_documents lines 74-85: one chunk embedded and appended.
EmbedOk(r) ==
    /\ Adding(r) /\ run[r].k <= Len(run[r].batch)
    /\ LET doc == run[r].batch[run[r].k]
       IN  /\ embeddings' = Append(embeddings, get_embedding(doc.content, provider_dim))
           /\ documents' = Append(documents, doc)
    /\ run' = [run EXCEPT ![r].k = @ + 1]
    /\ embedCalls' = embedCalls + 1
    /\ UNCHANGED <<diskEmb, diskDoc, alive, folder, snap, attempt, lastAdded, nRuns, edited, nRestarts,
                   searchVars, queryVars, apiVars, chunkVars>>

\* _get_embedding raises: add_documents and process_pdf log and re-raise
\* (lines 92-94, 89-91); what was appended so far stays in the lists.
EmbedFails(r) ==
    /\ Adding(r) /\ run[r].k <= Len(run[r].batch)
    /\ run' = [run EXCEPT ![r] = AfterDocFailure(run[r])]
    /\ snap' = [snap EXCEPT ![r].errs = @ \cup {CurrentFile(r)}]
    /\ embedCalls' = embedCalls + 1
    /\ UNCHANGED <<storeVars, folder, attempt, lastAdded, nRuns, edited, nRestarts,
                   searchVars, queryVars, apiVars, chunkVars>>

\* add_documents lines 87-90: _save_data, then the normal return.
AddReturns(r) ==
    /\ Adding(r) /\ run[r].k > Len(run[r].batch)
    /\ \E o \in SaveOutcomes :
          LET w == save_data(o, embeddings, documents, diskEmb, diskDoc)
          IN  diskEmb' = w[1] /\ diskDoc' = w[2]
    /\ lastAdded' = run[r].batch
    /\ memAtAdd' = [emb |-> embeddings, docs |-> documents]
    /\ run' = [run EXCEPT ![r] = AfterDocDone(run[r])]
    /\ UNCHANGED <<embeddings, documents, alive, folder, snap, attempt, embedCalls, nRuns, edited, nRestarts,
                   searchVars, queryVars, provider_dim, api_result, chunkVars>>

\* The process is killed inside _save_data, after embeddings.pkl was written
\* and before documents.pkl is opened (lines 58-60).
CrashBetweenWrites(r) ==
    /\ Adding(r) /\ run[r].k > Len(run[r].batch)
    /\ diskEmb' = FileOf(embeddings)
    /\ alive' = FALSE
    /\ UNCHANGED <<embeddings, documents, diskDoc, ingestVars, searchVars, queryVars, apiVars, chunkVars>>

\* The loop is over: process_pdfs_folder returns.
FinishRun(r) ==
    /\ alive /\ run[r].pc = "loop" /\ run[r].idx > Len(run[r].files)
    /\ run' = [run EXCEPT ![r].pc = "done"]
    /\ UNCHANGED <<storeVars, folder, snap, attempt, embedCalls, lastAdded, nRuns, edited, nRestarts,
                   searchVars, queryVars, apiVars, chunkVars>>

\* Documents of the folder are replaced by other texts.  A run reads each
\* document once, so a change made during a run is seen as one made before
\* or after it, and changes in a row are seen as one: the folder changes
\* between runs, once.
EditDocument ==
    /\ alive /\ \A r \in Runs : Resting(r)
    /\ ~edited
    /\ \E f \in PdfFiles, v \in 0..MaxChunks :
          /\ v # folder[f]
          /\ folder' = [folder EXCEPT ![f] = v]
    /\ edited' = TRUE
    /\ UNCHANGED <<storeVars, run, snap, attempt, embedCalls, lastAdded, nRuns, nRestarts,
                   searchVars, queryVars, apiVars, chunkVars>>

\* main.lifespan, lines 50-54: close() saves once more and the process ends
\* (embeddings and documents keep the values the process ended with).
Shutdown ==
    /\ alive /\ \A r \in Runs : Resting(r)
    /\ \E o \in SaveOutcomes :
          LET w == save_data(o, embeddings, documents, diskEmb, diskDoc)
          IN  diskEmb' = w[1] /\ diskDoc' = w[2]
    /\ alive' = FALSE
    /\ UNCHANGED <<embeddings, documents, ingestVars, searchVars, queryVars, apiVars, chunkVars>>

\* main.lifespan, line 37: VectorStore() in a new process.  Config is read
\* again (line 18), so the embedding model may be another one.
Restart ==
    /\ ~alive /\ nRestarts < MaxRestarts
    /\ LET m == load_data(diskEmb, diskDoc)
       IN  embeddings' = m[1] /\ documents' = m[2]
    /\ alive' = TRUE
    /\ provider_dim' \in Dims
    /\ run' = [r \in Runs |-> IdleRun]
    /\ nRestarts' = nRestarts + 1
    /\ UNCHANGED <<diskEmb, diskDoc, folder, snap, attempt, embedCalls, lastAdded, nRuns, edited,
                   searchVars, queryVars, memAtAdd, api_result, chunkVars>>

IngestInit ==
    /\ embeddings = <<>> /\ documents = <<>>
    /\ diskEmb = NoFile /\ diskDoc = NoFile
    /\ alive = TRUE
    /\ folder \in [PdfFiles -> 0..MaxChunks]
    /\ run = [r \in Runs |-> IdleRun]
    /\ snap = [r \in Runs |-> NoSnap]
    /\ attempt = [f \in PdfFiles |-> <<>>]
    /\ embedCalls = 0
    /\ lastAdded = <<>>
    /\ nRuns = 0 /\ edited = FALSE /\ nRestarts = 0
    /\ SearchOff /\ QueryOff /\ ApiOff

IngestNext ==
    \/ StartRun(1)
    \/ ListdirFails(1)
    \/ SkipProcessed(1)
    \/ ExtractFails(1)
    \/ BeginAdd(1)
    \/ EmbedOk(1)
    \/ EmbedFails(1)
    \/ AddReturns(1)
    \/ FinishRun(1)
    \/ EditDocument
    \/ Shutdown

SpecIngest == IngestInit /\ [][IngestNext]_vars

---------------------------------------------------------------------------
\* Properties of the ingestion.

Started(r) == run[r].pc \in {"loop", "adding", "done"}

Listing(r) == Range(run[r].files)

HasEntry(docs, f) == \E i \in 1..Len(docs) : docs[i].source = f

\* C6: ingestion is all-or-nothing per document: when process_pdfs_folder has
\* returned, every document has all the chunks of its batch in the index or
\* none, and a document that failed in the run has no chunk in the index,
\* neither in memory nor in documents.pkl.
C6_AllOrNothing ==
    \A r \in Runs :
        /\ run[r].pc = "done" =>
              \A f \in PdfFiles : SourceEntries(documents, f) \in {<<>>, attempt[f]}
        /\ Started(r) =>
              \A f \in snap[r].errs :
                  /\ ~HasEntry(documents, f)
                  /\ ~HasEntry(diskDoc.data, f)

\* C7: a run that starts when every listed document has entries in the index
\* adds no entry and makes no embedding call, whatever the folder holds now.
AllIngestedAtStart(r) == \A f \in Listing(r) : HasEntry(snap[r].docs, f)

C7_IdempotentRerun ==
    \A r \in Runs :
        (Started(r) /\ AllIngestedAtStart(r)) =>
            /\ documents = snap[r].docs
            /\ embedCalls = snap[r].calls

\* C7 witness: a second run is over, every document was in the index when it
\* started, and a document's text on disk is no longer the ingested one.
C7_Witness ==
    /\ run[1].pc = "done" /\ nRuns = 2
    /\ AllIngestedAtStart(1)
    /\ \E f \in PdfFiles : folder[f] # Len(SourceEntries(documents, f))

\* C8: a document's failure does not stop the run: when the run is over, every
\* listed document that was not in the index at the start and did not fail is
\* in the index with its whole batch; the run raises only when no listing was
\* obtained.
C8_FailureIsolation ==
    \A r \in Runs :
        /\ run[r].pc = "raised" => run[r].files = <<>>
        /\ run[r].pc = "done" =>
              \A f \in Listing(r) :
                  (~HasEntry(snap[r].docs, f) /\ f \notin snap[r].errs) =>
                      SourceEntries(documents, f) = attempt[f]

\* C8 witness: the first listed document failed and a later one was ingested.
C8_Witness ==
    /\ run[1].pc = "done"
    /\ run[1].files[1] \in snap[1].errs
    /\ \E f \in Listing(1) :
          /\ f \notin snap[1].errs /\ ~HasEntry(snap[1].docs, f)
          /\ attempt[f] # <<>>
          /\ SourceEntries(documents, f) = attempt[f]

\* C9: once add_documents has returned normally for a batch, both files are
\* whole and documents.pkl holds every record of the batch.
C9_AddIsDurable ==
    lastAdded # <<>> =>
        /\ diskEmb.st = "ok" /\ diskDoc.st = "ok"
        /\ \A i \in 1..Len(lastAdded) :
              \E j \in 1..Len(diskDoc.data) : diskDoc.data[j] = lastAdded[i]

---------------------------------------------------------------------------
\* VectorStore.search on its own: the store is given, calls follow each other.

SearchInit ==
    /\ \E cs \in ContentSeqs(MaxStore) :
          /\ documents = StoreOf(cs)
          /\ embeddings = [i \in 1..Len(cs) |-> Embed(cs[i])]
    /\ diskEmb = NoFile /\ diskDoc = NoFile /\ alive = TRUE
    /\ IngestOff /\ QueryOff /\ ApiOff
    /\ spc = "idle" /\ squery = <<>> /\ stopk = 0
    /\ top_indices = <<>> /\ sresults = <<>>

\* (a variant without the early return of lines 99-100)
SearchCall_unguarded ==
    /\ spc \in {"idle", "returned", "raised"}
    /\ \E q \in Queries, k \in (0..MaxK) \cup {TOP_K_RESULTS} :
          /\ squery' = q /\ stopk' = k
    /\ spc' = "embedding"
    /\ top_indices' = <<>> /\ sresults' = <<>>
    /\ UNCHANGED <<storeVars, ingestVars, queryVars, apiVars, chunkVars>>

\* Lines 99-103: a call on an empty store returns [] at once; otherwise the
\* query goes to the embedding provider.
SearchCall ==
    /\ spc \in {"idle", "returned", "raised"}
    /\ \E q \in Queries, k \in (0..MaxK) \cup {TOP_K_RESULTS} :
          /\ squery' = q /\ stopk' = k
    /\ spc' = IF embeddings = <<>> THEN "returned" ELSE "embedding"
    /\ top_indices' = <<>> /\ sresults' = <<>>
    /\ UNCHANGED <<storeVars, ingestVars, queryVars, apiVars, chunkVars>>

\* Lines 137-139: the embedding call raises and search re-raises.
SearchEmbedFails ==
    /\ spc = "embedding"
    /\ spc' = "raised"
    /\ UNCHANGED <<squery, stopk, top_indices, sresults, storeVars, ingestVars, queryVars, apiVars, chunkVars>>

\* np.vstack (line 110) and cosine_similarity (line 113) take vectors of one
\* dimension only.
DimsAgree(emb, qv) == \A i \in 1..Len(emb) : Len(emb[i]) = Len(qv)

\* Lines 107-113 raise ValueError on vectors of different dimensions; search
\* logs and re-raises (lines 137-139).
SearchDimensionFails ==
    /\ spc = "embedding"
    /\ ~DimsAgree(embeddings, get_embedding(squery, provider_dim))
    /\ spc' = "raised"
    /\ UNCHANGED <<squery, stopk, top_indices, sresults, storeVars, ingestVars, queryVars, apiVars, chunkVars>>

\* Lines 107-135: rank and return.
SearchReturns ==
    /\ spc = "embedding"
    /\ DimsAgree(embeddings, get_embedding(squery, provider_dim))
    /\ LET sims == Similarities(embeddings, get_embedding(squery, provider_dim))
       IN  \E p \in Argsort(sims) :
              /\ top_indices' = TopIndices(p, stopk)
              /\ sresults' = FormatResults(documents, sims, TopIndices(p, stopk))
    /\ spc' = "returned"
    /\ UNCHANGED <<squery, stopk, storeVars, ingestVars, queryVars, apiVars, chunkVars>>

SearchNext ==
    \/ SearchCall
    \/ SearchEmbedFails
    \/ SearchReturns

SpecSearch == SearchInit /\ [][SearchNext]_vars

\* The position at which a result was stored.
StoredAt(res) == CHOOSE i \in 1..Len(documents) : documents[i].chunk_id = res.chunk_id

Descending(results) ==
    \A i, j \in 1..Len(results) :
        i < j => SimLeq(results[j].similarity, results[i].similarity)

TiesInInsertionOrder(results) ==
    \A i, j \in 1..Len(results) :
        (i < j /\ results[i].similarity = results[j].similarity) =>
            StoredAt(results[i]) < StoredAt(results[j])

\* C10 (as claimed): the results of search come by non-increasing similarity,
\* and results of equal similarity come in insertion order.
C10_StableRanking ==
    spc = "returned" => (Descending(sresults) /\ TiesInInsertionOrder(sresults))

\* C10 (amended): the results of search come by non-increasing similarity to
\* the query, each with the similarity of its own stored vector.
C10_Descending ==
    spc = "returned" =>
        /\ Descending(sresults)
        /\ \A i \in 1..Len(sresults) :
              sresults[i].similarity =
                  CosineSimilarity(Embed(squery), embeddings[StoredAt(sresults[i])])

\* C10 witness: a returned ranking with two results of equal similarity and
\* two of different similarity.
C10_Witness ==
    /\ spc = "returned"
    /\ \E i, j \in 1..Len(sresults) :
          i < j /\ sresults[i].similarity = sresults[j].similarity
    /\ \E i, j \in 1..Len(sresults) :
          sresults[i].similarity # sresults[j].similarity

\* C11: on an index of n entries (n vectors with their n records), search
\* with result count k returns exactly min(k, n) results, each the record of
\* a different stored entry; with k >= n it returns every stored entry, by
\* non-increasing similarity.
C11_SearchCount ==
    (spc = "returned" /\ Len(embeddings) = Len(documents)) =>
        LET n == Len(documents)
        IN  /\ Len(sresults) = Min(stopk, n)
            /\ Len(top_indices) = Len(sresults)
            /\ \A i \in 1..Len(sresults) :
                  /\ top_indices[i] \in 1..n
                  /\ sresults[i].content = documents[top_indices[i]].content
                  /\ sresults[i].source = documents[top_indices[i]].source
                  /\ sresults[i].page = documents[top_indices[i]].page
                  /\ sresults[i].chunk_id = documents[top_indices[i]].chunk_id
            /\ \A i, j \in 1..Len(top_indices) : i # j => top_indices[i] # top_indices[j]
            /\ stopk >= n => (Range(top_indices) = 1..n /\ Descending(sresults))

\* C11 witness: a search that asked for more results than the index holds
\* has returned, and the index holds entries of different similarity.
C11_Witness ==
    /\ spc = "returned"
    /\ Len(documents) >= 2 /\ stopk > Len(documents)
    /\ Len(sresults) = Len(documents)
    /\ sresults[1].similarity # sresults[Len(sresults)].similarity

\* C12: on an empty index search returns the empty sequence and never
\* raises: it does not reach the embedding provider at all.
C12_EmptyIndexSearch ==
    embeddings = <<>> =>
        /\ spc \notin {"embedding", "raised"}
        /\ spc = "returned" => sresults = <<>>

\* C12 witness: a search with a positive result count has returned on an
\* empty index.
C12_Witness ==
    /\ embeddings = <<>> /\ documents = <<>>
    /\ spc = "returned" /\ stopk > 0 /\ squery # <<>>
    /\ sresults = <<>>

---------------------------------------------------------------------------
\* The store in one process: ingestion runs, searches and the read
\* operations, in any order.  No coroutine of the service reaches a real suspension
\* point (genai.embed_content blocks), so a search or a read operation runs
\* between two runs of process_pdfs_folder, never inside one.

\* get_stats / list_documents, lines 170-172 and 186-188.
unique_sources(docs) == {docs[i].source : i \in 1..Len(docs)}

\* get_stats
get_stats(docs) == [chunks |-> Len(docs), documents |-> Cardinality(unique_sources(docs))]

\* The order of sorted() on the file names: "a.PDF" < "a.pdf" < "n.txt".
NameKey(f) == IF f = PdfB THEN 1 ELSE IF f = PdfA THEN 2 ELSE 3

\* (a variant that lists the sources in the order of their first chunk)
RECURSIVE FirstAppearances(_)
FirstAppearances(docs) ==
    IF docs = <<>> THEN <<>>
    ELSE LET rest == FirstAppearances(SubSeq(docs, 1, Len(docs) - 1))
             f    == docs[Len(docs)].source
         IN  IF \E i \in 1..Len(rest) : rest[i] = f THEN rest ELSE Append(rest, f)

list_documents_unsorted(docs) == FirstAppearances(docs)

\* list_documents
list_documents(docs) ==
    CHOOSE p \in Perms(unique_sources(docs)) :
        \A i \in 1..(Len(p) - 1) : NameKey(p[i]) < NameKey(p[i + 1])

AtRest == alive /\ (\A r \in Runs : Resting(r)) /\ spc # "embedding"

GetStats ==
    /\ AtRest
    /\ api_result' = [NoResult EXCEPT !.op = "get_stats",
                                      !.chunks = get_stats(documents).chunks,
                                      !.documents = get_stats(documents).documents]
    /\ UNCHANGED <<storeVars, ingestVars, searchVars, queryVars, provider_dim, memAtAdd, chunkVars>>

ListDocuments ==
    /\ AtRest
    /\ api_result' = [NoResult EXCEPT !.op = "list_documents", !.names = list_documents(documents)]
    /\ UNCHANGED <<storeVars, ingestVars, searchVars, queryVars, provider_dim, memAtAdd, chunkVars>>

IsDocumentProcessed ==
    /\ AtRest
    /\ \E f \in FolderFiles :
          api_result' = [NoResult EXCEPT !.op = "is_document_processed", !.arg = f,
                                          !.found = is_document_processed(documents, f)]
    /\ UNCHANGED <<storeVars, ingestVars, searchVars, queryVars, provider_dim, memAtAdd, chunkVars>>

\* A search of the running service: QueryHandler.process_query asks for
\* Config.TOP_K_RESULTS results (query_handler.py:21, 33).
StoreQueries == { <<"knee", "dental">> }

StoreSearchCall ==
    AtRest /\ SearchCall /\ stopk' = TOP_K_RESULTS /\ squery' \in StoreQueries

\* The index a process starts with: none, or one that an earlier process
\* persisted with the vectors of Config.EMBEDDING_MODEL as it was then.
LoadedStores == {<<>>, SubSeq(StoreOf(<<ContentList[1], ContentList[3]>>), 2, 2)}

StoreInit ==
    /\ \E st \in LoadedStores :
          /\ documents = st
          /\ embeddings = [i \in 1..Len(st) |-> get_embedding(st[i].content, 2)]
          /\ diskEmb = (IF st = <<>> THEN NoFile ELSE FileOf(embeddings))
          /\ diskDoc = (IF st = <<>> THEN NoFile ELSE FileOf(documents))
          /\ provider_dim \in (IF st = <<>> THEN {2} ELSE Dims)
    /\ memAtAdd = NoMem /\ api_result = NoResult /\ ChunksOff
    /\ alive = TRUE
    /\ folder \in [PdfFiles -> 0..MaxDocChunks]
    /\ run = [r \in Runs |-> IdleRun]
    /\ snap = [r \in Runs |-> NoSnap]
    /\ attempt = [f \in PdfFiles |-> <<>>]
    /\ embedCalls = 0
    /\ lastAdded = <<>>
    /\ nRuns = 0 /\ edited = FALSE /\ nRestarts = 0
    /\ spc = "idle" /\ squery = <<>> /\ stopk = 0
    /\ top_indices = <<>> /\ sresults = <<>>
    /\ QueryOff

StoreNext ==
    \/ StartRun(1)
    \/ SkipProcessed(1)
    \/ BeginAdd(1)
    \/ EmbedOk(1)
    \/ EmbedFails(1)
    \/ AddReturns(1)
    \/ FinishRun(1)
    \/ StoreSearchCall
    \/ SearchEmbedFails
    \/ SearchDimensionFails
    \/ SearchReturns
    \/ GetStats
    \/ ListDocuments
    \/ IsDocumentProcessed

SpecStore == StoreInit /\ [][StoreNext]_vars

IsPrefix(a, b) == Len(a) <= Len(b) /\ SubSeq(b, 1, Len(a)) = a

\* C14: the index is append-only within a process lifetime: every step of
\* add_documents (succeeding or failing), search, get_stats, list_documents
\* and is_document_processed leaves every entry that was present in place
\* and unchanged, and the steps of search and of the read operations leave
\* the two lists as they are.
C14_AppendOnly ==
    [][ /\ IsPrefix(documents, documents')
        /\ IsPrefix(embeddings, embeddings')
        /\ (searchVars' # searchVars \/ api_result' # api_result) =>
               (documents' = documents /\ embeddings' = embeddings) ]_vars

\* C14 witness: after a run in which one add_documents failed and another
\* succeeded, a search has returned results and a read operation has run.
C14_Witness ==
    /\ run[1].pc = "done" /\ snap[1].errs # {}
    /\ lastAdded # <<>> /\ Len(documents) > Len(snap[1].docs)
    /\ spc = "returned" /\ sresults # <<>>
    /\ api_result.op = "list_documents"

\* C21: whenever list_documents returns, its result holds exactly the
\* distinct sources of the stored chunks, in ascending order of the file
\* names and without duplicates, whatever the insertion order; whenever
\* get_stats returns, documents is the number of distinct sources (the length
\* of that list) and chunks the number of stored entries.
C21_ListAndStats ==
    [][ (api_result' # api_result) =>
          /\ api_result'.op = "list_documents" =>
                /\ \A i, j \in 1..Len(api_result'.names) :
                      i < j => NameKey(api_result'.names[i]) < NameKey(api_result'.names[j])
                /\ Range(api_result'.names) = {documents'[i].source : i \in 1..Len(documents')}
          /\ api_result'.op = "get_stats" =>
                /\ api_result'.chunks = Len(documents')
                /\ api_result'.documents =
                      Cardinality({documents'[i].source : i \in 1..Len(documents')}) ]_vars

\* C21 witness: list_documents has returned two sources in an order that is
\* not the order in which they were stored.
C21_Witness ==
    /\ api_result.op = "list_documents"
    /\ Len(api_result.names) = 2
    /\ Len(documents) = 2
    /\ documents[1].source = api_result.names[2]
    /\ documents[2].source = api_result.names[1]

\* The service with documents of several chunks: one process that starts
\* with an empty store, its ingestion runs, and searches and reads between
\* the runs.
VisibilityInit ==
    /\ StoreOff
    /\ provider_dim = 2 /\ memAtAdd = NoMem /\ api_result = NoResult /\ ChunksOff
    /\ folder \in [PdfFiles -> 0..MaxChunks]
    /\ run = [r \in Runs |-> IdleRun]
    /\ snap = [r \in Runs |-> NoSnap]
    /\ attempt = [f \in PdfFiles |-> <<>>]
    /\ embedCalls = 0
    /\ lastAdded = <<>>
    /\ nRuns = 0 /\ edited = FALSE /\ nRestarts = 0
    /\ spc = "idle" /\ squery = <<>> /\ stopk = 0
    /\ top_indices = <<>> /\ sresults = <<>>
    /\ QueryOff

VisibilityNext ==
    \/ StartRun(1)
    \/ SkipProcessed(1)
    \/ BeginAdd(1)
    \/ EmbedOk(1)
    \/ EmbedFails(1)
    \/ AddReturns(1)
    \/ FinishRun(1)
    \/ StoreSearchCall
    \/ SearchEmbedFails
    \/ SearchReturns
    \/ GetStats
    \/ IsDocumentProcessed

SpecVisibility == VisibilityInit /\ [][VisibilityNext]_vars

\* The whole batch of a document is in the list.
WholeBatch(docs, f) == SourceEntries(docs, f) = attempt[f]

\* C28: a search never observes a partially added batch: when search
\* returns, every document with a chunk among the results has its whole batch
\* in the index and in documents.pkl; is_document_processed answers true and
\* get_stats counts chunks only for documents whose whole batch is in the
\* index.
C28_BatchVisibleAtomically ==
    [][ /\ (spc' = "returned" /\ spc # "returned") =>
              \A n \in 1..Len(sresults') :
                  /\ WholeBatch(documents', sresults'[n].source)
                  /\ diskDoc'.st = "ok"
                  /\ WholeBatch(diskDoc'.data, sresults'[n].source)
        /\ (api_result' # api_result /\ api_result'.op = "is_document_processed"
              /\ api_result'.arg \in PdfFiles /\ api_result'.found) =>
              WholeBatch(documents', api_result'.arg)
        /\ (api_result' # api_result /\ api_result'.op = "get_stats") =>
              \A f \in PdfFiles : SourceEntries(documents', f) \in {<<>>, attempt[f]} ]_vars

\* C29: a document whose ingestion failed is attempted again by the next
\* run: after the failure is_document_processed is false for it, and a run
\* skips a document only when the whole batch of that document is in the
\* index.
C29_FailedIsRetried ==
    [][ \A r \in Runs :
          /\ \A f \in snap[r].errs : ~is_document_processed(documents, f)
          /\ (/\ AtDocument(r)
              /\ is_document_processed(documents, CurrentFile(r))
              /\ run'[r].idx = run[r].idx + 1)
             => WholeBatch(documents, CurrentFile(r)) ]_vars

---------------------------------------------------------------------------
\* The store over process lifetimes: the ingestion runs of a process, its
\* shutdown, and the next process, which loads the two files.
LifetimesInit ==
    /\ StoreOff
    /\ folder \in [PdfFiles -> 0..MaxDocChunks]
    /\ run = [r \in Runs |-> IdleRun]
    /\ snap = [r \in Runs |-> NoSnap]
    /\ attempt = [f \in PdfFiles |-> <<>>]
    /\ embedCalls = 0
    /\ lastAdded = <<>>
    /\ nRuns = 0 /\ edited = FALSE /\ nRestarts = 0
    /\ SearchOff /\ QueryOff /\ ApiOff

LifetimesNext ==
    \/ StartRun(1)
    \/ SkipProcessed(1)
    \/ BeginAdd(1)
    \/ EmbedOk(1)
    \/ EmbedFails(1)
    \/ AddReturns(1)
    \/ FinishRun(1)
    \/ CrashBetweenWrites(1)
    \/ Shutdown
    \/ Restart

SpecLifetimes == LifetimesInit /\ [][LifetimesNext]_vars

\* C15: persist/reload round trip: when add_documents has completed and
\* nothing has changed the two lists since, the VectorStore constructed by the
\* next process holds the collection as it was at that add: same records,
\* same order, same vector for each record.
C15_RoundTrip ==
    [][ (/\ ~alive /\ alive'
         /\ lastAdded # <<>>
         /\ embeddings = memAtAdd.emb /\ documents = memAtAdd.docs)
        => (embeddings' = memAtAdd.emb /\ documents' = memAtAdd.docs) ]_vars

\* C13: all vectors of the index have the same dimension in every reachable
\* state (an add_documents whose provider yields another dimension fails and
\* leaves no vector of the new dimension in the index).
C13_UniformDimension ==
    \A i, j \in 1..Len(embeddings) : Len(embeddings[i]) = Len(embeddings[j])

\* The vectors and the records are paired: equal length, and each vector is
\* an embedding of the content of the record at its position.
Correlated(emb, docs) ==
    /\ Len(emb) = Len(docs)
    /\ \A i \in 1..Len(emb) : \E d \in Dims : emb[i] = get_embedding(docs[i].content, d)

\* C23: the stored vectors and the stored records are order-correlated 1:1
\* in every reachable state, in memory and in the two files, also after a
\* crash between the two file writes of _save_data, a restart and further
\* ingestion.
C23_Correlated ==
    /\ Correlated(embeddings, documents)
    /\ (diskEmb.st = "ok" /\ diskDoc.st = "ok") => Correlated(diskEmb.data, diskDoc.data)

---------------------------------------------------------------------------
\* POST /ingest: two triggers of process_pdfs_folder in one process.  The
\* handler hands the coroutine to BackgroundTasks, which awaits it on the
\* event loop once the response is sent.  Nothing the coroutine awaits ever
\* gives the loop back: _get_embedding calls genai.embed_content without an
\* await (vector_store.py lines 144-148) and extraction and _save_data are
\* plain calls, so a run that has started is over before the loop starts
\* the next one.

Executing(r) == run[r].pc \in {"loop", "adding"}

\* main.py lines 136-145: the handler registers the background task.  It runs
\* on the event loop, so no run is executing then.
TriggerIngestion(r) ==
    /\ alive /\ Resting(r) /\ nRuns < MaxRuns
    /\ \A q \in Runs : ~Executing(q)
    /\ run' = [run EXCEPT ![r] = [IdleRun EXCEPT !.pc = "queued"]]
    /\ nRuns' = nRuns + 1
    /\ UNCHANGED <<storeVars, folder, snap, attempt, embedCalls, lastAdded, edited, nRestarts,
                   searchVars, queryVars, apiVars, chunkVars>>

\* (a variant in which the event loop starts a queued run while another run
\* is waiting for an embedding)
StartQueuedRun_interleaved(r) ==
    /\ alive /\ run[r].pc = "queued"
    /\ \E order \in Perms(PdfFiles) :
          run' = [run EXCEPT ![r] =
                    [pc    |-> IF order = <<>> THEN "done" ELSE "loop",
                     files |-> order, idx |-> 1, batch |-> <<>>, k |-> 1,
                     err   |-> "none"]]
    /\ snap' = [snap EXCEPT ![r] = [docs |-> documents, calls |-> embedCalls, errs |-> {}]]
    /\ UNCHANGED <<storeVars, folder, attempt, embedCalls, lastAdded, nRuns, edited, nRestarts,
                   searchVars, queryVars, apiVars, chunkVars>>

\* The event loop starts a queued run (pdf_ingestor.py lines 26-33); the run
\* before it has returned.
StartQueuedRun(r) ==
    /\ alive /\ run[r].pc = "queued"
    /\ \A q \in Runs : ~Executing(q)
    /\ \E order \in Perms(PdfFiles) :
          run' = [run EXCEPT ![r] =
                    [pc    |-> IF order = <<>> THEN "done" ELSE "loop",
                     files |-> order, idx |-> 1, batch |-> <<>>, k |-> 1,
                     err   |-> "none"]]
    /\ snap' = [snap EXCEPT ![r] = [docs |-> documents, calls |-> embedCalls, errs |-> {}]]
    /\ UNCHANGED <<storeVars, folder, attempt, embedCalls, lastAdded, nRuns, edited, nRestarts,
                   searchVars, queryVars, apiVars, chunkVars>>

TriggersInit == IngestInit

TriggersNext ==
    \E r \in Runs :
        \/ TriggerIngestion(r)
        \/ StartQueuedRun(r)
        \/ SkipProcessed(r)
        \/ ExtractFails(r)
        \/ BeginAdd(r)
        \/ EmbedOk(r)
        \/ EmbedFails(r)
        \/ AddReturns(r)
        \/ FinishRun(r)

SpecTriggers == TriggersInit /\ [][TriggersNext]_vars

EntryKey(d) == <<d.source, d.page, d.chunk_index>>

\* C27: no document is ingested twice, also when two process_pdfs_folder
\* runs are triggered together: in every reachable state the index holds at
\* most one entry for each (source, page, chunk_index).
C27_NoDoubleIngestion ==
    \A i, j \in 1..Len(documents) :
        EntryKey(documents[i]) = EntryKey(documents[j]) => i = j

\* C30: chunk identifiers are unique in the index: two stored chunks that
\* differ in source filename, page or chunk_index have different chunk_id
\* values, whatever names ending in .pdf (in any letter case) the folder
\* holds.
C30_ChunkIdUnique ==
    \A i, j \in 1..Len(documents) :
        EntryKey(documents[i]) # EntryKey(documents[j]) =>
            documents[i].chunk_id # documents[j].chunk_id

\* C27 witness: the first run is in the middle of a document's batch while
\* the second trigger is waiting, and the index holds entries.
C27_Witness ==
    /\ run[1].pc = "adding" /\ run[1].k > 1
    /\ run[2].pc = "queued"
    /\ documents # <<>>

---------------------------------------------------------------------------
\* POST /query: main.process_query around QueryHandler.process_query, one
\* action per stretch of code between two calls of an external collaborator.

\* The query texts a request can carry.
RequestTexts == { <<>>, <<" ">>, <<"knee">>, <<" ", "dental", " ">> }

\* The dictionaries the generation model can put into its answer.
GoodCitation == Citation(<<"Page 5">>, <<"quoted">>, [base |-> "policy", ext |-> "pdf"])

ModelDicts ==
    { Dict(d, a, j, alt) :
        d   \in {Absent, JNull, JStr("Approved"), JStr("Rejected"), JStr("Uncertain"), JStr("Maybe")},
        a   \in {Absent, JStr("Rs50,000")},
        j   \in {Absent, JStr("see policy"), JList(<<>>), JList(<<GoodCitation>>),
                 JList(<<MalformedItem>>)},
        alt \in {Absent, JList(<<>>), JList(<<MalformedItem>>), JStr("none")} }

GoodDict == Dict(JStr("Approved"), Absent, JList(<<GoodCitation>>), JList(<<>>))

\* The raw texts of a generation response.
RawTexts ==
    {<<Obj(o)>> : o \in ModelDicts}
    \cup { <<FenceJson, Ws, Obj(GoodDict), Ws, Fence>>,
           <<Prose, Obj(GoodDict), Prose>>,
           <<Obj(GoodDict), BraceTail>>,
           <<Obj(GoodDict), Ws, Obj(NoDict)>>,
           <<Prose>>, <<ArrayText>>, <<>> }

GenOutcomes == {GenRaise("ProviderError")} \cup {GenText(raw) : raw \in RawTexts}

HintOutcomes ==
    {GenRaise("ProviderError"), GenText(<<Prose>>), GenText(<<Obj(NoDict)>>),
     GenText(<<ArrayText>>)}

QueryInit ==
    /\ \E cs \in ContentSeqs(MaxQStore) :
          /\ documents = StoreOf(cs)
          /\ embeddings = [i \in 1..Len(cs) |-> Embed(cs[i])]
    /\ diskEmb = NoFile /\ diskDoc = NoFile /\ alive = TRUE
    /\ IngestOff /\ SearchOff /\ ApiOff
    /\ query_handler \in {"none", "ready"}
    /\ qpc = "idle" /\ request = <<>> /\ structured_info = "empty"
    /\ search_results = <<>> /\ response_text = <<>>
    /\ decision_result = Raise("") /\ http_raised = 0 /\ http_status = 0
    /\ qtrace = <<>>

Arrives(q) ==
    /\ qpc \in {"idle", "done"}
    /\ request' = q
    /\ structured_info' = "empty" /\ search_results' = <<>> /\ response_text' = <<>>
    /\ decision_result' = Raise("")

\* main.py lines 119-120: the handler is not there.
RejectNotReady ==
    /\ \E q \in RequestTexts : Arrives(q)
    /\ query_handler = "none"
    /\ http_raised' = 503
    /\ http_status' = endpoint_except(503)
    /\ qpc' = "done" /\ qtrace' = <<>>
    /\ UNCHANGED <<query_handler, storeVars, ingestVars, searchVars, apiVars, chunkVars>>

\* main.py lines 122-123: the query is empty once stripped.
RejectEmpty ==
    /\ \E q \in RequestTexts : Arrives(q) /\ StripText(q) = <<>>
    /\ query_handler = "ready"
    /\ http_raised' = 400
    /\ http_status' = endpoint_except(400)
    /\ qpc' = "done" /\ qtrace' = <<>>
    /\ UNCHANGED <<query_handler, storeVars, ingestVars, searchVars, apiVars, chunkVars>>

\* main.py line 128, query_handler.py lines 25-29: process_query starts and
\* asks the model for the hints.
AcceptQuery ==
    /\ \E q \in RequestTexts : Arrives(q) /\ StripText(q) # <<>>
    /\ query_handler = "ready"
    /\ http_raised' = 0 /\ http_status' = 0
    /\ qpc' = "parse" /\ qtrace' = <<"Started">>
    /\ UNCHANGED <<query_handler, storeVars, ingestVars, searchVars, apiVars, chunkVars>>

\* (a variant in which a failing hint generation is not caught by
\* _parse_query and ends process_query in its except clause)
ParseQuery_propagates ==
    /\ qpc = "parse"
    /\ \E h \in HintOutcomes :
          /\ structured_info' = parse_query(h)
          /\ IF h.kind = "raise"
             THEN /\ decision_result' = process_query_except(Raise(h.exc))
                  /\ qpc' = "respond"
                  /\ qtrace' = Append(qtrace, "Terminal")
             ELSE IF embeddings = <<>>
             THEN /\ decision_result' = process_query_except(Return(no_results_dict))
                  /\ qpc' = "respond"
                  /\ qtrace' = qtrace \o <<"Parsed", "Searched", "NoResults", "Terminal">>
             ELSE /\ decision_result' = decision_result
                  /\ qpc' = "search"
                  /\ qtrace' = Append(qtrace, "Parsed")
    /\ UNCHANGED <<query_handler, request, search_results, response_text, http_raised,
                   http_status, storeVars, ingestVars, searchVars, apiVars, chunkVars>>

\* _parse_query returns; a store without vectors answers the search at once
\* (vector_store.py lines 99-100, query_handler.py lines 36-47).
ParseQuery ==
    /\ qpc = "parse"
    /\ \E h \in HintOutcomes : structured_info' = parse_query(h)
    /\ IF embeddings = <<>>
       THEN /\ decision_result' = process_query_except(Return(no_results_dict))
            /\ qpc' = "respond"
            /\ qtrace' = qtrace \o <<"Parsed", "Searched", "NoResults", "Terminal">>
       ELSE /\ decision_result' = decision_result
            /\ qpc' = "search"
            /\ qtrace' = Append(qtrace, "Parsed")
    /\ UNCHANGED <<query_handler, request, search_results, response_text, http_raised,
                   http_status, storeVars, ingestVars, searchVars, apiVars, chunkVars>>

\* The embedding of the query fails: search raises (vector_store.py lines
\* 137-139) into the except clause of process_query.
QuerySearchFails ==
    /\ qpc = "search"
    /\ decision_result' = process_query_except(Raise("ProviderError"))
    /\ qpc' = "respond"
    /\ qtrace' = qtrace \o <<"SearchRaised", "Terminal">>
    /\ UNCHANGED <<query_handler, request, structured_info, search_results, response_text,
                   http_raised, http_status, storeVars, ingestVars, searchVars, apiVars, chunkVars>>

\* search returns its ranking (query_handler.py lines 33-52).
QuerySearch ==
    /\ qpc = "search"
    /\ LET sims == Similarities(embeddings, Embed(request))
       IN  \E p \in Argsort(sims) :
              LET res == FormatResults(documents, sims, TopIndices(p, TOP_K_RESULTS))
              IN  /\ search_results' = res
                  /\ IF res = <<>>
                     THEN /\ decision_result' = process_query_except(Return(no_results_dict))
                          /\ qpc' = "respond"
                          /\ qtrace' = qtrace \o <<"Searched", "NoResults", "Terminal">>
                     ELSE /\ decision_result' = decision_result
                          /\ qpc' = "decide"
                          /\ qtrace' = Append(qtrace, "Searched")
    /\ UNCHANGED <<query_handler, request, structured_info, response_text, http_raised,
                   http_status, storeVars, ingestVars, searchVars, apiVars, chunkVars>>

\* _make_decision from the answer of the generation call to its return, and
\* the return of process_query (lines 55-58).
Decide ==
    /\ qpc = "decide"
    /\ \E gen \in GenOutcomes :
          /\ response_text' = gen.raw
          /\ decision_result' = process_query_except(make_decision(search_results, gen))
          /\ qtrace' = qtrace \o decision_stages(gen) \o <<"Terminal">>
    /\ qpc' = "respond"
    /\ UNCHANGED <<query_handler, request, structured_info, search_results, http_raised,
                   http_status, storeVars, ingestVars, searchVars, apiVars, chunkVars>>

\* main.py lines 130-134: QueryResponse(**result); a ValidationError, like
\* anything process_query raised, ends in the except clause.
Respond ==
    /\ qpc = "respond"
    /\ IF decision_result.kind = "return" /\ QueryResponseValid(decision_result.val)
       THEN http_status' = 200
       ELSE http_status' = endpoint_except(0)
    /\ qpc' = "done"
    /\ UNCHANGED <<query_handler, request, structured_info, search_results, response_text,
                   decision_result, http_raised, qtrace, storeVars, ingestVars, searchVars, apiVars, chunkVars>>

QueryNext ==
    \/ RejectNotReady
    \/ RejectEmpty
    \/ AcceptQuery
    \/ ParseQuery
    \/ QuerySearchFails
    \/ QuerySearch
    \/ Decide
    \/ Respond

SpecQuery == QueryInit /\ [][QueryNext]_vars

---------------------------------------------------------------------------
\* Properties of the query pipeline.

\* QueryHandler.process_query has ended for the request at hand.
ProcessQueryEnded == qtrace # <<>> /\ qtrace[Len(qtrace)] = "Terminal"

\* C1: process_query absorbs every failure: however the hint generation, the
\* query embedding, the search and the decision generation end, it returns a
\* dictionary with decision, justification and alternatives and never raises.
C1_ErrorBoundary ==
    ProcessQueryEnded =>
        /\ decision_result.kind = "return"
        /\ decision_result.val.decision.t # "absent"
        /\ decision_result.val.justification.t # "absent"
        /\ decision_result.val.alternatives.t # "absent"

\* C1 witness: the hint generation gave nothing usable, the search raised,
\* and process_query has returned.
C1_Witness ==
    /\ ProcessQueryEnded
    /\ structured_info = "empty"
    /\ \E i \in 1..Len(qtrace) : qtrace[i] = "SearchRaised"
    /\ decision_result.kind = "return"

\* C2: the decision of every result process_query returns is Approved,
\* Rejected or Uncertain.
C2_DecisionInEnum ==
    (ProcessQueryEnded /\ decision_result.kind = "return") =>
        decision_result.val.decision \in {JStr("Approved"), JStr("Rejected"), JStr("Uncertain")}

\* C3: the justification of every result process_query returns is a list of
\* at least one citation.
C3_JustificationNonEmpty ==
    (ProcessQueryEnded /\ decision_result.kind = "return") =>
        /\ decision_result.val.justification.t = "list"
        /\ Len(decision_result.val.justification.l) >= 1

\* C4: a non-empty query, with the services initialized, is answered with
\* status 200 whatever the generation model did.
C4_NoServerErrorFromModel ==
    (qpc = "done" /\ query_handler = "ready" /\ StripText(request) # <<>>) =>
        http_status = 200

\* C5: an empty or blank query is answered with the status the handler
\* raised for it, 400.
C5_EmptyQueryIsClientError ==
    (qpc = "done" /\ query_handler = "ready" /\ StripText(request) = <<>>) =>
        (http_status = 400 /\ http_status = http_raised)

\* The stages the request at hand went through.
Stage(x) == \E i \in 1..Len(qtrace) : qtrace[i] = x

\* C18: on an empty index process_query returns exactly decision "Unknown",
\* one citation with source "N/A" and clause "N/A" and alternatives = [],
\* whatever the query and the outcome of the hint step, and the decision
\* generation is not called.
C18_EmptyIndexUnknown ==
    (ProcessQueryEnded /\ embeddings = <<>>) =>
        /\ decision_result.kind = "return"
        /\ decision_result.val.decision = JStr("Unknown")
        /\ decision_result.val.justification.t = "list"
        /\ Len(decision_result.val.justification.l) = 1
        /\ decision_result.val.justification.l[1].wellformed
        /\ decision_result.val.justification.l[1].source = NA
        /\ decision_result.val.justification.l[1].clause = <<"N/A">>
        /\ decision_result.val.alternatives = JList(<<>>)
        /\ ~Stage("Decided") /\ ~Stage("GenerationRaised") /\ ~Stage("DecisionParseFailed")
        /\ response_text = <<>>

\* C18 witness: a request with a query text has ended on an empty index after
\* a hint step that yielded hints.
C18_Witness ==
    /\ ProcessQueryEnded /\ embeddings = <<>>
    /\ StripText(request) # <<>>
    /\ structured_info = "hints"

\* C19: when search results exist, the decision generation gave no JSON
\* object and the content of the top result contains "excluded", the
\* heuristic fallback returns decision "Rejected", also when that content
\* contains coverage words.
C19_ExcludedIsRejected ==
    (/\ ProcessQueryEnded /\ Stage("HeuristicFallback")
     /\ search_results # <<>>
     /\ HasPhrase(search_results[1].content, <<"excluded">>)) =>
        /\ decision_result.kind = "return"
        /\ decision_result.val.decision = JStr("Rejected")

\* The object the decision generation answered with, when its answer was one
\* JSON object.
ParsedObject == CleanAndLoad(response_text).o

AnsweredObjectWithoutAlternatives ==
    /\ ProcessQueryEnded /\ Stage("Decided")
    /\ ParsedObject.alternatives.t = "absent"

\* C20 (as claimed): when the decision generation answers a JSON object
\* without the alternatives field, the result of process_query has
\* alternatives = [] and the decision and the justification of that object.
C20_AlternativesInjected ==
    AnsweredObjectWithoutAlternatives =>
        /\ decision_result.kind = "return"
        /\ decision_result.val.alternatives = JList(<<>>)
        /\ ParsedObject.decision.t # "absent" =>
              decision_result.val.decision = ParsedObject.decision
        /\ ParsedObject.justification.t # "absent" =>
              decision_result.val.justification = ParsedObject.justification

\* C20 (amended): ... alternatives = [], the decision of that object, and its
\* justification when that is a list; a justification that is missing or not
\* a list is replaced by one citation of the top search result, and a missing
\* decision by "Uncertain".
C20_AlternativesInjectedListKept ==
    AnsweredObjectWithoutAlternatives =>
        /\ decision_result.kind = "return"
        /\ decision_result.val.alternatives = JList(<<>>)
        /\ decision_result.val.decision =
              (IF ParsedObject.decision.t = "absent" THEN JStr("Uncertain")
               ELSE ParsedObject.decision)
        /\ decision_result.val.justification =
              (IF ParsedObject.justification.t = "list" THEN ParsedObject.justification
               ELSE JList(<<Citation(<<"Page", ToString(search_results[1].page)>>,
                                     Take(search_results[1].content, PreviewLen) \o <<"...">>,
                                     search_results[1].source)>>))

\* C20 witness: an answer without alternatives whose justification is a list
\* of one citation has been returned.
C20_Witness ==
    /\ AnsweredObjectWithoutAlternatives
    /\ ParsedObject.decision = JStr("Rejected")
    /\ ParsedObject.justification = JList(<<GoodCitation>>)
    /\ decision_result.kind = "return"

\* The raw text holds a JSON object and, after the first one, further text
\* with a closing brace.
FirstObjectIndex(text) ==
    CHOOSE i \in 1..Len(text) : HasOpen(text[i]) /\ \A j \in 1..(i - 1) : ~HasOpen(text[j])

ObjectThenBraces(text) ==
    /\ \E i \in 1..Len(text) : HasOpen(text[i])
    /\ \E j \in (FirstObjectIndex(text) + 1)..Len(text) : HasClose(text[j])

\* C24: when the raw decision text holds a valid top-level decision object
\* followed by further text with braces, the first top-level object is
\* extracted and parsed and its decision is returned; the heuristic is not
\* used.
C24_FirstObjectParsed ==
    (/\ ProcessQueryEnded
     /\ Stage("Searched") /\ search_results # <<>>
     /\ ObjectThenBraces(response_text)
     /\ response_text[FirstObjectIndex(response_text)].o = GoodDict)
    => (/\ Stage("Decided") /\ ~Stage("HeuristicFallback")
        /\ decision_result.kind = "return"
        /\ decision_result.val.decision = GoodDict.decision)

\* process_query has ended and its hint step gave the empty hint set.
EndedWithoutHints == ProcessQueryEnded /\ structured_info = "empty"

\* The result of the except clause of process_query.
IsProcessError(res) ==
    \E exc \in ExceptionClasses :
        res = Return(fallback_dict("Uncertain", <<"Error processing query:", exc>>))

AnswerIsObject == CleanAndLoad(response_text).ok /\ CleanAndLoad(response_text).isdict

\* C25: the hint step is best-effort: when the hint generation fails or its
\* output is not JSON, process_query still performs the search and, when the
\* search finds something, the decision step; the hint failure produces no
\* error result, and the terminal branch is the one the search and the
\* decision text determine.
C25_HintsBestEffort ==
    EndedWithoutHints =>
        /\ Stage("Parsed")
        /\ Stage("Searched") \/ Stage("SearchRaised")
        /\ search_results # <<>> =>
              (Stage("Decided") \/ Stage("HeuristicFallback") \/ Stage("GenerationRaised"))
        /\ decision_result.kind = "return"
        /\ IsProcessError(decision_result) => Stage("SearchRaised")
        /\ Stage("NoResults") <=> (search_results = <<>> /\ ~Stage("SearchRaised"))
        /\ Stage("Decided") <=>
              (search_results # <<>> /\ ~Stage("GenerationRaised") /\ AnswerIsObject)
        /\ Stage("HeuristicFallback") <=>
              (search_results # <<>> /\ ~Stage("GenerationRaised") /\ ~AnswerIsObject)

\* C25 witness: a query whose hint step gave nothing has been decided from
\* the model's JSON object.
C25_Witness ==
    /\ EndedWithoutHints
    /\ Stage("Decided")
    /\ decision_result.kind = "return"
    /\ decision_result.val.decision = JStr("Approved")

\* The paths of the stated state machine.
StatedPaths ==
    { <<"Started", "Parsed", "Searched", "NoResults", "Terminal">>,
      <<"Started", "Parsed", "Searched", "Decided", "Terminal">>,
      <<"Started", "Parsed", "Searched", "DecisionParseFailed", "HeuristicFallback", "Terminal">> }

\* The paths on which a provider call raised.
ErrorPaths ==
    { <<"Started", "Parsed", "SearchRaised", "Terminal">>,
      <<"Started", "Parsed", "Searched", "GenerationRaised", "Terminal">> }

IsPathPrefix(t, paths) == \E q \in paths : Len(t) <= Len(q) /\ SubSeq(q, 1, Len(t)) = t

\* C22 (as claimed): every execution of process_query goes Started, Parsed,
\* Searched, then NoResults, or Decided, or DecisionParseFailed and
\* HeuristicFallback, then Terminal, and reaches Terminal by no other path.
C22_StateMachine ==
    /\ IsPathPrefix(qtrace, StatedPaths)
    /\ ProcessQueryEnded => qtrace \in StatedPaths

\* C22 (amended): every execution follows one of the stated paths or, when
\* the search or the decision generation raises, goes from there straight to
\* Terminal with the Uncertain error result; the decision generation is
\* called only after a non-empty search, and the heuristic fallback is
\* entered only after the decision text failed to give a JSON object.
C22_StateMachineWithErrors ==
    /\ IsPathPrefix(qtrace, StatedPaths \cup ErrorPaths)
    /\ ProcessQueryEnded => qtrace \in StatedPaths \cup ErrorPaths
    /\ (Stage("Decided") \/ Stage("DecisionParseFailed") \/ Stage("GenerationRaised")) =>
          search_results # <<>>
    /\ Stage("HeuristicFallback") =>
          ~(CleanAndLoad(response_text).ok /\ CleanAndLoad(response_text).isdict)
    /\ (ProcessQueryEnded /\ (Stage("SearchRaised") \/ Stage("GenerationRaised"))) =>
          (decision_result.kind = "return" /\ decision_result.val.decision = JStr("Uncertain"))

\* C22 witness: an execution has reached Terminal on the path on which the
\* decision generation raised.
C22_Witness ==
    /\ ProcessQueryEnded
    /\ qtrace = <<"Started", "Parsed", "Searched", "GenerationRaised", "Terminal">>
    /\ search_results # <<>>

---------------------------------------------------------------------------
\* PDFIngestor.create_chunks.  A text is a sequence of characters.

MaxTextLen   == 7    \* characters of the page text
MaxChunkSize == 4    \* the chunk sizes tried

Chars == {"a", "b", ".", " "}

Texts == UNION {[1..n -> Chars] : n \in 0..MaxTextLen}

\* str.strip(): white space off both ends.
RECURSIVE LStripChars(_)
LStripChars(t) == IF t # <<>> /\ Head(t) = " " THEN LStripChars(Tail(t)) ELSE t

StripChars(t) == Reverse(LStripChars(Reverse(LStripChars(t))))

\* The positions at which '. ' occurs in t.
Boundaries(t) == {i \in 1..(Len(t) - 1) : t[i] = "." /\ t[i + 1] = " "}

\* str.split('. '): the pieces between the occurrences of '. ', found from
\* the left.
RECURSIVE SplitSentences(_)
SplitSentences(t) ==
    IF Boundaries(t) = {} THEN <<t>>
    ELSE LET i == CHOOSE b \in Boundaries(t) : \A c \in Boundaries(t) : b <= c
         IN  <<SubSeq(t, 1, i - 1)>> \o SplitSentences(SubSeq(t, i + 2, Len(t)))

Sep == <<".", " ">>

\* text[-n:]  (text[-0:] is the whole text)
LastChars(t, n) == IF n = 0 \/ n >= Len(t) THEN t ELSE SubSeq(t, Len(t) - n + 1, Len(t))

\* get_overlap_text
get_overlap_text(t, overlap) ==
    IF Len(t) <= overlap THEN t
    ELSE LET tail == LastChars(t, overlap)
             \* str.rfind('. ') + 1 as a position from 1; 0 when not found
             last_period == IF Boundaries(tail) = {} THEN 0
                            ELSE CHOOSE b \in Boundaries(tail) : \A c \in Boundaries(tail) : c <= b
         IN  StripChars(IF last_period > 1
                        THEN SubSeq(tail, last_period + 2, Len(tail))
                        ELSE tail)

ChunkRecord(t, page_num, chunk_index) ==
    [text |-> StripChars(t), page |-> page_num, chunk_index |-> chunk_index]

\* create_chunks, line 141: the current chunk is closed before this sentence.
CloseChunk(potential, current, size) == Len(potential) > size /\ current # <<>>

\* create_chunks, lines 132-155: the loop over the sentences.
RECURSIVE ChunkLoop(_, _, _, _, _, _)
ChunkLoop(sentences, current, out, page_num, size, overlap) ==
    IF sentences = <<>> THEN [current |-> current, out |-> out]
    ELSE LET sentence == StripChars(Head(sentences))
             potential == IF current # <<>> THEN current \o Sep \o sentence ELSE sentence
         IN  IF sentence = <<>> THEN ChunkLoop(Tail(sentences), current, out, page_num, size, overlap)
             ELSE IF CloseChunk(potential, current, size)
             THEN LET overlap_text == get_overlap_text(current, overlap)
                  IN  ChunkLoop(Tail(sentences),
                                IF overlap_text # <<>> THEN overlap_text \o Sep \o sentence
                                ELSE sentence,
                                Append(out, ChunkRecord(current, page_num, Len(out))),
                                page_num, size, overlap)
             ELSE ChunkLoop(Tail(sentences), potential, out, page_num, size, overlap)

\* (a variant that returns without the chunk still being built)
create_chunks_unflushed(text, page_num, size, overlap) ==
    LET t == StripChars(text)
    IN  IF t = <<>> THEN <<>>
        ELSE ChunkLoop(SplitSentences(t), <<>>, <<>>, page_num, size, overlap).out

\* create_chunks
create_chunks(text, page_num, size, overlap) ==
    LET t == StripChars(text)
    IN  IF t = <<>> THEN <<>>
        ELSE LET r == ChunkLoop(SplitSentences(t), <<>>, <<>>, page_num, size, overlap)
             IN  IF StripChars(r.current) # <<>>
                 THEN Append(r.out, ChunkRecord(r.current, page_num, Len(r.out)))
                 ELSE r.out

ChunksInit ==
    /\ StoreOff /\ IngestOff /\ SearchOff /\ QueryOff
    /\ provider_dim = 2 /\ memAtAdd = NoMem /\ api_result = NoResult
    /\ cpc = "input"
    /\ ctext \in Texts
    /\ chunk_size \in 1..MaxChunkSize
    /\ chunk_overlap \in 0..(chunk_size - 1)
    /\ chunks = <<>>

CreateChunks ==
    /\ cpc = "input"
    /\ chunks' = create_chunks(ctext, 1, chunk_size, chunk_overlap)
    /\ cpc' = "done"
    /\ UNCHANGED <<ctext, chunk_size, chunk_overlap,
                   storeVars, ingestVars, searchVars, queryVars, apiVars>>

ChunksNext == CreateChunks

SpecChunks == ChunksInit /\ [][ChunksNext]_vars

\* A sentence of the page text: a piece of split('. '), stripped.
IsSentenceOf(t, text) ==
    \E k \in 1..Len(SplitSentences(StripChars(text))) :
        StripChars(SplitSentences(StripChars(text))[k]) = t

\* C16: every chunk create_chunks emits has at most chunk_size characters,
\* unless the chunk consists of a single sentence that is itself longer than
\* chunk_size.
C16_ChunkSize ==
    cpc = "done" =>
        \A i \in 1..Len(chunks) :
            \/ Len(chunks[i].text) <= chunk_size
            \/ IsSentenceOf(chunks[i].text, ctext)

IsSuffixOf(w, t) == Len(w) <= Len(t) /\ SubSeq(t, Len(t) - Len(w) + 1, Len(t)) = w

StartsWith(t, w) == Len(w) <= Len(t) /\ SubSeq(t, 1, Len(w)) = w

\* The overlap tail of a closed chunk as the claim describes it: its last
\* overlap characters, cut after the last sentence boundary inside them.
TrimmedTail(t, overlap) ==
    LET tail == IF Len(t) <= overlap THEN t ELSE SubSeq(t, Len(t) - overlap + 1, Len(t))
    IN  IF Boundaries(tail) = {} THEN StripChars(tail)
        ELSE LET b == CHOOSE x \in Boundaries(tail) : \A c \in Boundaries(tail) : c <= x
             IN  StripChars(SubSeq(tail, b + 2, Len(tail)))

\* C17 (as claimed): with overlap > 0 and more than one chunk, every chunk
\* after the first starts with a non-empty suffix of the preceding chunk of at
\* most overlap characters: the overlap tail, trimmed to a sentence boundary
\* when one lies inside the tail.
C17_OverlapTrimmed ==
    (cpc = "done" /\ chunk_overlap > 0 /\ Len(chunks) > 1) =>
        \A i \in 2..Len(chunks) :
            LET w == TrimmedTail(chunks[i - 1].text, chunk_overlap)
            IN  /\ w # <<>> /\ Len(w) <= chunk_overlap
                /\ IsSuffixOf(w, chunks[i - 1].text)
                /\ StartsWith(chunks[i].text, w \o Sep)

\* C17 (core): with overlap > 0 and more than one chunk, every chunk after the
\* first starts with the overlap text of the preceding chunk followed by
\* '. ', and that overlap text is a non-empty suffix of the preceding chunk of
\* at most overlap characters.
C17_Overlap ==
    (cpc = "done" /\ chunk_overlap > 0 /\ Len(chunks) > 1) =>
        \A i \in 2..Len(chunks) :
            LET w == get_overlap_text(chunks[i - 1].text, chunk_overlap)
            IN  /\ w # <<>> /\ Len(w) <= chunk_overlap
                /\ IsSuffixOf(w, chunks[i - 1].text)
                /\ StartsWith(chunks[i].text, w \o Sep)

\* The non-empty sentences of the page text, in input order.
RECURSIVE NonEmpty(_)
NonEmpty(ss) ==
    IF ss = <<>> THEN <<>>
    ELSE IF StripChars(Head(ss)) = <<>> THEN NonEmpty(Tail(ss))
    ELSE <<StripChars(Head(ss))>> \o NonEmpty(Tail(ss))

Sentences(text) == NonEmpty(SplitSentences(StripChars(text)))

\* w occurs in t as one piece.
Contains(t, w) == \E i \in 1..(Len(t) - Len(w) + 1) : SubSeq(t, i, i + Len(w) - 1) = w

\* C26: create_chunks loses and splits no sentence: every non-empty sentence
\* of a non-empty text is whole in some chunk, the chunks hold the sentences
\* in input order, the last chunk is the final buffer and ends with the last
\* sentence; empty or whitespace-only input yields no chunks.
C26_NoSentenceLost ==
    cpc = "done" =>
        LET ss == Sentences(ctext)
        IN  /\ StripChars(ctext) = <<>> => chunks = <<>>
            /\ StripChars(ctext) # <<>> =>
                  /\ chunks # <<>> /\ ss # <<>>
                  /\ \E f \in [1..Len(ss) -> 1..Len(chunks)] :
                        /\ \A k \in 1..Len(ss) : Contains(chunks[f[k]].text, ss[k])
                        /\ \A k \in 1..(Len(ss) - 1) : f[k] <= f[k + 1]
                        /\ f[Len(ss)] = Len(chunks)
                  /\ IsSuffixOf(ss[Len(ss)], chunks[Len(chunks)].text)

\* C26 witness: a text of three sentences has been cut into more than one
\* chunk.
C26_Witness ==
    /\ cpc = "done"
    /\ Len(Sentences(ctext)) = 3
    /\ Len(chunks) > 1
    /\ chunk_overlap > 0

=============================================================================
